---------------------------- MODULE Spec2Model ----------------------------
(***************************************************************************)
(* The SQS consumer of pet-clinic-event-processor.                         *)
(*                                                                         *)
(* The repository holds three versions of the consumer, each a complete    *)
(* program with its own processMessage / deleteMessage / pollQueue:        *)
(*   src/src/PetClinicReportProcessor.js   (the version with the DLQ)      *)
(*   src/unnamed/part_001                  (the first, minimal version)    *)
(*   src/unnamed/part_002                  (the "enhanced" version)        *)
(* The variable `variant` says which of them is running.                   *)
(*                                                                         *)
(* A JavaScript callback runs to completion; the points where the          *)
(* consumer waits are the awaits of sqsClient.send (receive, delete), the  *)
(* 100 ms timer of processReportData and the setTimeout that schedules the *)
(* next pollQueue.  The actions below are the steps between those points.  *)
(***************************************************************************)
EXTENDS Integers, Sequences, FiniteSets, TLC

\* ------------------------------------------------------------- bounds
\* Number of messages the producer sends in one behaviour.
MaxMsgs == 2
\* maxReceiveCount of the redrive policy in the model of redelivery.
RedriveCount == 2
\* Number of messages waiting on each queue in the model of a backlog.
Backlog == 11
\* maxReceiveCount of the provider's redrive policy of the primary queue.
MaxReceiveCount == 1

\* ---------------------------------------------------- program constants
\* maxAttempts of the SQSClient (part_002 sets it; the other versions leave
\* the SDK's default, which is the same number).
maxAttempts == 3
\* MaxNumberOfMessages of both ReceiveMessageCommand parameter blocks.
MaxNumberOfMessages == 10

\* ------------------------------------------------------- JS values
Undefined == [jstype |-> "undefined"]
Null      == [jstype |-> "null"]
Str(cs)   == [jstype |-> "string", chars |-> cs]

\* JavaScript truthiness of the values a JSON document can hold here.
Truthy(v) ==
    CASE v.jstype = "undefined" -> FALSE
      [] v.jstype = "null"      -> FALSE
      [] v.jstype = "string"    -> v.chars # <<>>
      [] OTHER                  -> TRUE

\* Template literal `${a} ${b}`.
Template(a, b) == Str(a.chars \o <<" ">> \o b.chars)

\* obj.field: undefined when the object has no such own property.
Get(obj, field) == IF field \in DOMAIN obj.props THEN obj.props[field] ELSE Undefined

Obj(props) == [jstype |-> "object", props |-> props]

\* The thirteen fields both validators require.
requiredFields ==
    << "petId", "petName", "petType", "ownerId", "ownerName",
       "ownerSurname", "vetId", "vetName", "vetSurname",
       "appointmentDate", "appointmentTime", "appointmentType",
       "appointmentDescription" >>

FieldNames == { requiredFields[i] : i \in 1..Len(requiredFields) }

\* A payload with every required field a non-empty string.  Every field
\* holds a different text so that a mapper that mixes fields up is seen.
FullProps == [ f \in FieldNames |-> Str(<<f>>) ]

\* FullProps with field f removed / set to v.
Without(props, f) == [ g \in (DOMAIN props) \ {f} |-> props[g] ]
With(props, f, v) == [ props EXCEPT ![f] = v ]

\* ------------------------------------------------------ message bodies
\* message.Body is text: either not JSON at all, or the text of a JSON value.
Malformed     == [wellFormed |-> FALSE, json |-> Undefined]
JsonText(v)   == [wellFormed |-> TRUE,  json |-> v]

ValidBody     == JsonText(Obj(FullProps))
NullBody      == JsonText(Null)
\* The three ways one required field can be missing.
Defect(f, how) ==
    CASE how = "absent" -> JsonText(Obj(Without(FullProps, f)))
      [] how = "null"   -> JsonText(Obj(With(FullProps, f, Null)))
      [] how = "empty"  -> JsonText(Obj(With(FullProps, f, Str(<<>>))))

Defects == {"absent", "null", "empty"}

\* Every body with exactly one defective required field.
OneDefectBodies == { Defect(f, how) : f \in FieldNames, how \in Defects }

\* Bodies the producer puts on the queue in the queueing model.
QueueBodies == { ValidBody, Malformed, Defect("vetName", "absent") }

\* Bodies of the single message of the validation model.
AllBodies == OneDefectBodies \cup { ValidBody, Malformed, NullBody }


\* ------------------------------------------------------------- errors
\* A thrown value: the error's name and its message text (a sequence of
\* text pieces; `+` and template literals concatenate).
Err(name, message) == [name |-> name, message |-> message]
NoError == Err("", <<>>)

\* String(error): "<name>: <message>".
ErrToString(e) == <<e.name, ": ">> \o e.message

\* What JSON.parse throws on text that is not JSON.
SyntaxError == Err("SyntaxError", <<"Unexpected token in JSON">>)
\* What evaluating the identifier PetClinicReport throws: no version of the
\* consumer requires or declares it (and the class has no static `from`).
ReferenceError == Err("ReferenceError", <<"PetClinicReport is not defined">>)
\* The provider's answer to a delete with a stale or unknown receipt handle.
ReceiptHandleIsInvalid == Err("ReceiptHandleIsInvalid", <<"The receipt handle has expired">>)
\* What sqsClient.send throws once the SDK has used up its attempts.
TransientQueueError == Err("TimeoutError", <<"socket hang up">>)

\* `throw new Error('Invalid message format...')` of the two validators.
InvalidFormatMain == Err("Error", <<"Invalid message format. Skipping processing.">>)
InvalidFormatV2   == Err("Error", <<"Invalid message format - missing required fields">>)

\* ------------------------------------------------------ pure functions
Ok(v)     == [threw |-> FALSE, value |-> v, error |-> NoError]
Throws(e) == [threw |-> TRUE,  value |-> Undefined, error |-> e]

\* JSON.parse wrapped so that text that is not JSON yields null.
JSONparseLenient(Body) == IF Body.wellFormed THEN Ok(Body.json) ELSE Ok(Null)

\* JSON.parse(message.Body)
JSONparse(Body) == IF Body.wellFormed THEN Ok(Body.json) ELSE Throws(SyntaxError)

\* messageBody && messageBody.petId && ... && messageBody.appointmentDescription
\* (null is falsy and short-circuits the chain before any property access).
RECURSIVE AndChain(_, _)
AndChain(messageBody, i) ==
    IF i > Len(requiredFields) THEN TRUE
    ELSE Truthy(Get(messageBody, requiredFields[i])) /\ AndChain(messageBody, i + 1)

IsValidMain(messageBody) == Truthy(messageBody) /\ AndChain(messageBody, 1)

\* The check of part_002 testing only that each field is there
\* (`field in messageBody`), whatever it holds.
IsValidV2KeyOnly(messageBody) ==
    /\ Truthy(messageBody)
    /\ \A i \in 1..Len(requiredFields) : requiredFields[i] \in DOMAIN messageBody.props

\* requiredFields.every(field => messageBody && messageBody[field])
IsValidV2(messageBody) ==
    \A i \in 1..Len(requiredFields) :
        Truthy(messageBody) /\ Truthy(Get(messageBody, requiredFields[i]))

\* PetClinicReport.from(message.body): the identifier is unbound in the
\* module, so the call throws before it looks at its argument.
PetClinicReportFrom(arg) == Throws(ReferenceError)

NoReport == [id |-> Undefined]

\* The report literal of part_002.
BuildReport(messageBody) ==
    [ id          |-> Get(messageBody, "petId"),
      petInfo     |-> [ name |-> Get(messageBody, "petName"),
                        type |-> Get(messageBody, "petType") ],
      ownerInfo   |-> [ id   |-> Get(messageBody, "ownerId"),
                        name |-> Template(Get(messageBody, "ownerName"),
                                          Get(messageBody, "ownerSurname")) ],
      vetInfo     |-> [ id   |-> Get(messageBody, "vetId"),
                        name |-> Template(Get(messageBody, "vetName"),
                                          Get(messageBody, "vetSurname")) ],
      appointment |-> [ date        |-> Get(messageBody, "appointmentDate"),
                        time        |-> Get(messageBody, "appointmentTime"),
                        type        |-> Get(messageBody, "appointmentType"),
                        description |-> Get(messageBody, "appointmentDescription") ],
      environment |-> Str(<<"production">>) ]

\* `new Error('Error processing message:' + error)`
WrapMain(e) == Err("Error", <<"Error processing message:">> \o ErrToString(e))
\* `new Error(`Message processing failed: ${error.message}`)`
WrapV2(e)   == Err("Error", <<"Message processing failed: ">> \o e.message)


\* -------------------------------------------------------------- state
VARIABLES
    variant,    \* which version of the consumer runs
    queueUrl,   \* module constant queueUrl (process.env.SQS_QUEUE_URL)
    where,      \* provider: message id -> "unsent" | "primary" | "dlq" | "deleted"
    body,       \* provider: message id -> Body
    rc,         \* provider: message id -> receives so far on its present queue
    inflight,   \* provider: message id -> hidden by a visibility timeout
    pc,         \* where pollQueue stands
    batch,      \* data.Messages of the receive on the primary queue
    tasks,      \* the processMessage call of each message of batch
    idx,        \* position of part_002's for loop in batch
    dlqBatch,   \* data.Messages of the receive on the DLQ
    dlqTasks,   \* the loop body of processDeadLetterQueue for each of them
    dlqIdx,     \* position of processDeadLetterQueue's for loop
    calls,      \* DeleteMessageCommands sent in the present poll cycle
    log,        \* console output of the present poll cycle
    retries,    \* the SDK's failed attempts of each pending command, as <<command, n>>
    timers,     \* number of pending setTimeout(pollQueue, ...) timers
    recv,       \* how the receive on the primary queue of the present cycle ended:
                \* "pending" | "empty" | "messages" | "failed"
    exitCode    \* exit code of the process once it has ended, else -1

vars == << variant, queueUrl, where, body, rc, inflight, pc, batch, tasks, idx,
           dlqBatch, dlqTasks, dlqIdx, calls, log, retries, timers, recv, exitCode >>

provider == << where, body, rc, inflight >>
config   == << variant, queueUrl >>

VMain == "PetClinicReportProcessor"
V1   == "part_001"
V2   == "part_002"
Variants == { VMain, V1, V2 }

Ids == 1..MaxMsgs

Url(base, suffix) == [base |-> base, suffix |-> suffix]
\* process.env.SQS_QUEUE_URL when it is set, and when it is not.
PrimaryUrl == Url("pet-clinic-reports", "")
NoUrl      == Url("undefined", "")
\* const dlqUrl = process.env.SQS_DLQ_URL || process.env.SQS_QUEUE_URL + '-dlq'
dlqUrl     == Url(queueUrl.base, "-dlq")

\* The queue a URL names at the provider.
QueueOf(url) ==
    CASE url = PrimaryUrl                    -> "primary"
      [] url = Url(PrimaryUrl.base, "-dlq")  -> "dlq"
      [] OTHER                               -> "none"

\* const queueUrl = process.env.SQS_QUEUE_URL [|| '<default>' in part_002]
QueueUrlOf(v, envUrl) == IF v = V2 /\ envUrl = NoUrl THEN PrimaryUrl ELSE envUrl

\* The commands the SDK may have to repeat, as <<kind, queue, id, n>>.
ReceiveCall(q) == <<"receive", q, 0, 0>>
DeleteCall(receiptHandle) == <<"delete">> \o receiptHandle

\* sqsClient.send: the attempts of a pending command that have failed so far.
NoRetries == {}
Failures(call) ==
    IF \E p \in retries : p[1] = call
    THEN (CHOOSE p \in retries : p[1] = call)[2]
    ELSE 0
Clear(call) == { p \in retries : p[1] # call }
Bump(call)  == Clear(call) \cup { <<call, Failures(call) + 1>> }
\* The attempt that is under way is the last one the SDK makes.
LastAttempt(call) == Failures(call) = maxAttempts - 1

\* A console line: level, the literal text of the call, the message it is about
\* (0 when it is about none).
Line(lvl, text, id) == [lvl |-> lvl, text |-> text, id |-> id]

\* A received message.
Message(id, q, n, b) ==
    [MessageId |-> id, ReceiptHandle |-> <<q, id, n>>, Body |-> b]

\* The state of one processMessage call:
\*   st     "new" | "awaitReport" | "awaitDelete" | "resolved" | "rejected"
\*   err    the error the returned promise rejected with
\*   steps  what the call has done so far, in order
\*   report the report it built
Task(st, err, steps, report) ==
    [st |-> st, err |-> err, steps |-> steps, report |-> report]
NewTask == Task("new", NoError, <<>>, NoReport)

\* The outcome of running a call up to its first await: the task, the lines
\* it logged and the DeleteMessageCommands it sent.
Ran(task, lines, sent) == [task |-> task, lines |-> lines, sent |-> sent]

\* deleteMessage(receiptHandle, targetQueue = queueUrl) of
\* PetClinicReportProcessor.js: the parameters of the command it sends.
deleteMessage(receiptHandle, targetQueue) ==
    [QueueUrl |-> targetQueue, ReceiptHandle |-> receiptHandle]

\* deleteMessage of part_002 sending its command to the other queue.
deleteMessageVOtherQueue(receiptHandle) ==
    [QueueUrl |-> dlqUrl, ReceiptHandle |-> receiptHandle]

\* deleteMessage(receiptHandle) of part_001 and part_002.
deleteMessageV(receiptHandle) ==
    [QueueUrl |-> queueUrl, ReceiptHandle |-> receiptHandle]

\* const targetQueue = isRetry ? dlqUrl : queueUrl;
targetQueue(isRetry) == IF isRetry THEN dlqUrl ELSE queueUrl

\* processMessage of PetClinicReportProcessor.js without the `throw` of its
\* else branch: an invalid message is logged and then deleted.
processMessageMainNoThrow(message, isRetry) ==
    LET id     == message.MessageId
        parsed == JSONparse(message.Body)
        caught(e, steps, lines) ==
            Ran(Task("rejected", WrapMain(e), steps, NoReport),
                lines \o <<Line("error", "Error processing message:", id)>>, <<>>)
    IN  IF parsed.threw
        THEN caught(parsed.error, <<"parse">>, <<>>)
        ELSE LET l1 == <<Line("log", "Received message:", id)>> IN
             IF IsValidMain(parsed.value)
             THEN caught(ReferenceError, <<"parse", "validate", "map">>, l1)
             ELSE Ran(Task("awaitDelete", NoError, <<"parse", "validate", "delete">>, NoReport),
                      l1 \o <<Line("log", "Invalid message format. Skipping processing.", id)>>,
                      <<deleteMessage(message.ReceiptHandle, targetQueue(isRetry))>>)

\* processMessage(message, isRetry) of PetClinicReportProcessor.js, up to its
\* first await.
processMessageMain(message, isRetry) ==
    LET id     == message.MessageId
        parsed == JSONparse(message.Body)
        caught(e, steps, lines) ==
            Ran(Task("rejected", WrapMain(e), steps, NoReport),
                lines \o <<Line("error", "Error processing message:", id)>>, <<>>)
    IN  IF parsed.threw
        THEN caught(parsed.error, <<"parse">>, <<>>)
        ELSE LET l1 == <<Line("log", "Received message:", id)>> IN
             IF IsValidMain(parsed.value)
             THEN LET report == PetClinicReportFrom(Undefined) IN
                  IF report.threw
                  THEN caught(report.error, <<"parse", "validate", "map">>, l1)
                  ELSE Ran(Task("awaitDelete", NoError,
                                <<"parse", "validate", "map", "delete">>, report.value),
                           l1 \o <<Line("log", "Processed report:", id)>>,
                           <<deleteMessage(message.ReceiptHandle, targetQueue(isRetry))>>)
             ELSE caught(InvalidFormatMain, <<"parse", "validate">>,
                         l1 \o <<Line("log", "Invalid message format. Skipping processing.", id)>>)

\* processMessage(message) of part_001, up to its first await: the first
\* statement of the try block throws, and the catch block swallows it.
processMessageV1(message) ==
    LET id     == message.MessageId
        report == PetClinicReportFrom(Undefined)
        caught(steps) ==
            Ran(Task("resolved", NoError, steps, NoReport),
                <<Line("error", "Error processing message:", id)>>, <<>>)
    IN  IF report.threw
        THEN caught(<<"map">>)
        ELSE LET parsed == JSONparse(message.Body) IN
             IF parsed.threw
             THEN caught(<<"map", "parse">>)
             ELSE Ran(Task("awaitDelete", NoError, <<"map", "parse", "delete">>, report.value),
                      <<Line("log", "Received message:", id)>>,
                      <<deleteMessageV(message.ReceiptHandle)>>)

\* processMessage of part_002 with the deleteMessage call moved up, right
\* after JSON.parse and before the field check and the report.
processMessageV2DeleteFirst(message) ==
    LET id     == message.MessageId
        parsed == JSONparse(message.Body)
    IN  IF parsed.threw
        THEN Ran(Task("rejected", WrapV2(parsed.error), <<"parse">>, NoReport),
                 <<Line("error", "Error processing message:", id)>>, <<>>)
        ELSE Ran(Task("awaitDelete", NoError, <<"parse", "delete">>, NoReport),
                 <<Line("log", "Processing report message:", id)>>,
                 <<deleteMessageV(message.ReceiptHandle)>>)

\* processMessage of part_002 treating an invalid message as done: it is
\* logged and then deleted like a processed one.
processMessageV2SkipInvalid(message) ==
    LET id     == message.MessageId
        parsed == JSONparse(message.Body)
    IN  IF parsed.threw
        THEN Ran(Task("rejected", WrapV2(parsed.error), <<"parse">>, NoReport),
                 <<Line("error", "Error processing message:", id)>>, <<>>)
        ELSE LET l1 == <<Line("log", "Processing report message:", id)>> IN
             IF IsValidV2(parsed.value)
             THEN Ran(Task("awaitReport", NoError, <<"parse", "validate", "map">>,
                           BuildReport(parsed.value)),
                      l1 \o <<Line("log", "Successfully processed report:", id)>>, <<>>)
             ELSE Ran(Task("awaitDelete", NoError, <<"parse", "validate", "delete">>, NoReport),
                      l1 \o <<Line("error", "Invalid message format - missing required fields", id)>>,
                      <<deleteMessageV(message.ReceiptHandle)>>)

\* processMessage(message) of part_002, up to its first await.
processMessageV2(message) ==
    LET id     == message.MessageId
        parsed == JSONparse(message.Body)
        caught(e, steps, lines) ==
            Ran(Task("rejected", WrapV2(e), steps, NoReport),
                lines \o <<Line("error", "Error processing message:", id)>>, <<>>)
    IN  IF parsed.threw
        THEN caught(parsed.error, <<"parse">>, <<>>)
        ELSE LET l1 == <<Line("log", "Processing report message:", id)>> IN
             IF IsValidV2(parsed.value)
             THEN Ran(Task("awaitReport", NoError, <<"parse", "validate", "map">>,
                           BuildReport(parsed.value)),
                      l1 \o <<Line("log", "Successfully processed report:", id)>>, <<>>)
             ELSE caught(InvalidFormatV2, <<"parse", "validate">>,
                         l1 \o <<Line("error", "Invalid message format - missing required fields", id)>>)

\* processMessage of the running version.
processMessage(message, isRetry) ==
    CASE variant = VMain -> processMessageMain(message, isRetry)
      [] variant = V1   -> processMessageV1(message)
      [] variant = V2   -> processMessageV2(message)


\* processMessage after `await deleteMessage(...)`: deleteMessage logs and
\* rethrows what sqsClient.send threw, and the catch block of processMessage
\* logs it and rethrows it wrapped (part_001: swallows it).
afterDelete(task, id, outcome) ==
    IF ~outcome.threw
    THEN Ran([task EXCEPT !.st = "resolved"],
             <<Line("log", IF variant = V2
                           THEN "Message processed and removed from queue"
                           ELSE "Message processed and deleted from queue", id)>>, <<>>)
    ELSE Ran([task EXCEPT !.st  = IF variant = V1 THEN "resolved" ELSE "rejected",
                          !.err = CASE variant = VMain -> WrapMain(outcome.error)
                                    [] variant = V1    -> NoError
                                    [] variant = V2    -> WrapV2(outcome.error)],
             << Line("error", "Error deleting message:", id),
                Line("error", "Error processing message:", id) >>, <<>>)

\* ------------------------------------------------------------ helpers
Range(f) == { f[i] : i \in DOMAIN f }

Min(a, b) == IF a <= b THEN a ELSE b

\* The elements of a set of ids as a sequence in ascending order.
RECURSIVE Sorted(_)
Sorted(S) ==
    IF S = {} THEN <<>>
    ELSE LET m == CHOOSE x \in S : \A y \in S : x <= y
         IN  <<m>> \o Sorted(S \ {m})

\* The concatenation of the sequences f[1], ..., f[n].
RECURSIVE Flatten(_, _)
Flatten(f, n) == IF n = 0 THEN <<>> ELSE Flatten(f, n - 1) \o f[n]

\* ----------------------------------------------------------- provider
\* The messages a ReceiveMessageCommand on queue q can return: the visible
\* ones, at most MaxNumberOfMessages of them.
Visible(q) == { i \in DOMAIN where : where[i] = q /\ ~inflight[i] }

\* A provider that ignores MaxNumberOfMessages and hands out every visible
\* message at once.
ReceivableUncapped(q) == { Visible(q) }

Receivable(q) ==
    { S \in SUBSET Visible(q) :
        Cardinality(S) = Min(Cardinality(Visible(q)), MaxNumberOfMessages) }

\* The provider's state after it has handed out the messages S of queue q:
\* each is hidden for its visibility timeout and counted as received once more.
Delivered(S) ==
    /\ inflight' = [i \in DOMAIN inflight |-> IF i \in S THEN TRUE ELSE inflight[i]]
    /\ rc'       = [i \in DOMAIN rc |-> IF i \in S THEN rc[i] + 1 ELSE rc[i]]
    /\ UNCHANGED << where, body >>

\* data.Messages for the messages S of queue q.
Messages(S, q) ==
    LET ids == Sorted(S)
    IN  [k \in 1..Len(ids) |-> Message(ids[k], q, rc[ids[k]] + 1, body[ids[k]])]

\* Whether the provider accepts a DeleteMessageCommand: the handle is the
\* one of the latest receive of a message that is still hidden on the queue
\* the command names.
Deletable(params) ==
    LET h == params.ReceiptHandle
    IN  /\ QueueOf(params.QueueUrl) = h[1]
        /\ where[h[2]] = h[1]
        /\ inflight[h[2]]
        /\ rc[h[2]] = h[3]

\* A producer sends a message: the next unused id, any body.
Send ==
    \E b \in QueueBodies :
      \E i \in Ids :
        /\ where[i] = "unsent"
        /\ \A j \in Ids : j < i => where[j] # "unsent"
        /\ where' = [where EXCEPT ![i] = "primary"]
        /\ body'  = [body EXCEPT ![i] = b]
        /\ UNCHANGED << rc, inflight, config, timers, retries, pc, batch, tasks, idx,
                        dlqBatch, dlqTasks, dlqIdx, calls, log, recv, exitCode >>

\* The visibility timeout of the received message i runs out, under a
\* redrive policy with the given maxReceiveCount.  A message of the primary
\* queue that has been received that many times is moved to the DLQ by the
\* provider; any other becomes visible again where it is.
ExpireOf(i, maxReceiveCount) ==
    /\ inflight[i]
    /\ inflight' = [inflight EXCEPT ![i] = FALSE]
    /\ IF where[i] = "primary" /\ rc[i] >= maxReceiveCount
       THEN /\ where' = [where EXCEPT ![i] = "dlq"]
            /\ rc'    = [rc EXCEPT ![i] = 0]
       ELSE /\ UNCHANGED where
            /\ rc' = [rc EXCEPT ![i] = IF where[i] = "dlq" THEN 0 ELSE @]
    /\ UNCHANGED << body, config, timers, retries, pc, batch, tasks, idx,
                    dlqBatch, dlqTasks, dlqIdx, calls, log, recv, exitCode >>

Expire(maxReceiveCount) == \E i \in Ids : ExpireOf(i, maxReceiveCount)

\* The visibility timeout of a received message runs out.
VisibilityTimeout == Expire(MaxReceiveCount)

\* The same under the redrive policy of the model of redelivery.
VisibilityTimeoutRedrive == Expire(RedriveCount)


\* ----------------------------------------------------------- consumer
\* pollQueue arming two timers for the next poll instead of one.
setTimeoutPollQueueTwice ==
    /\ pc' = "timer"
    /\ timers' = timers + 2

\* setTimeout(pollQueue, ...), the last statement of pollQueue.
setTimeoutPollQueue ==
    /\ pc' = "timer"
    /\ timers' = timers + 1

\* The body of pollQueue up to `await sqsClient.send(new ReceiveMessageCommand)`,
\* entered with `lines` already logged.  Without a queue URL part_001 calls
\* process.exit(1); the other versions return, which leaves nothing pending,
\* so the process ends with exit code 0.
pollQueue(lines) ==
    /\ batch' = <<>> /\ tasks' = <<>> /\ idx' = 0
    /\ dlqBatch' = <<>> /\ dlqTasks' = <<>> /\ dlqIdx' = 0
    /\ calls' = <<>>
    /\ recv' = "pending"
    /\ IF queueUrl = NoUrl
       THEN /\ log' = lines \o <<Line("error", "SQS_QUEUE_URL environment variable is not set", 0)>>
            /\ pc' = "exited"
            /\ exitCode' = IF variant = V1 THEN 1 ELSE 0
       ELSE /\ log' = lines
            /\ pc' = "receive"
            /\ UNCHANGED exitCode
    /\ retries' = NoRetries
    /\ UNCHANGED << provider, config >>

\* main(): log the queue (and the DLQ) and start polling.
main ==
    /\ pc = "main"
    /\ pollQueue(<<Line("log", "Starting SQS consumer for queue:", 0)>>)
    /\ UNCHANGED timers

\* The timer of `setTimeout(pollQueue, ...)` fires.
TimerFires ==
    /\ pc = "timer"
    /\ timers > 0
    /\ timers' = timers - 1
    /\ pollQueue(<<>>)

\* pollQueue with `data.Messages.length` on an empty answer not guarded:
\* the TypeError lands in the catch block and is logged as a receive error.
noMessagesThrows ==
    /\ log' = log \o <<Line("error", "Error receiving messages:", 0)>>
    /\ pc' = "afterTry"
    /\ UNCHANGED << tasks, idx, calls >>

\* The else branch of pollQueue: the answer holds no message.
noMessages ==
    /\ log' = log \o <<Line("log", "No messages received", 0)>>
    /\ pc' = "afterTry"
    /\ UNCHANGED << tasks, idx, calls >>

\* The receive on the primary queue returns.  An empty answer is logged.
\* PetClinicReportProcessor.js and part_001 start processMessage for every
\* message at once (data.Messages.map) and await Promise.all; part_002
\* enters its for loop.
ReceiveReturns ==
    /\ pc = "receive"
    /\ \E S \in Receivable("primary") :
         LET msgs == Messages(S, "primary")
             n    == Len(msgs)
             ran  == [k \in 1..n |-> processMessage(msgs[k], FALSE)]
         IN  /\ Delivered(S)
             /\ batch' = msgs
             /\ recv' = IF n = 0 THEN "empty" ELSE "messages"
             /\ IF n = 0
                THEN noMessages
                ELSE IF variant = V2
                THEN /\ log' = log \o <<Line("log", "Received messages", 0)>>
                     /\ tasks' = [k \in 1..n |-> NewTask]
                     /\ idx' = 1
                     /\ pc' = "loop"
                     /\ UNCHANGED calls
                ELSE /\ log' = log \o <<Line("log", "Received messages", 0)>>
                                   \o Flatten([k \in 1..n |-> ran[k].lines], n)
                     /\ tasks' = [k \in 1..n |-> ran[k].task]
                     /\ calls' = calls \o Flatten([k \in 1..n |-> ran[k].sent], n)
                     /\ pc' = "awaitAll"
                     /\ UNCHANGED idx
    /\ retries' = Clear(ReceiveCall("primary"))
    /\ UNCHANGED << config, timers, dlqBatch, dlqTasks, dlqIdx, exitCode >>

\* pollQueue without its try/catch: the rejection of the receive travels up
\* through main() to `main().catch`, which calls process.exit(1).
ReceiveFailsUncaught ==
    /\ pc = "receive"
    /\ LastAttempt(ReceiveCall("primary"))
    /\ retries' = Clear(ReceiveCall("primary"))
    /\ recv' = "failed"
    /\ log' = log \o <<Line("error", "Fatal error:", 0)>>
    /\ pc' = "exited"
    /\ exitCode' = 1
    /\ UNCHANGED << provider, config, timers, batch, tasks, idx, dlqBatch, dlqTasks,
                    dlqIdx, calls >>

\* pollQueue with an empty catch block: the failed receive leaves no trace.
ReceiveFailsUnlogged ==
    /\ pc = "receive"
    /\ LastAttempt(ReceiveCall("primary"))
    /\ retries' = Clear(ReceiveCall("primary"))
    /\ recv' = "failed"
    /\ pc' = "afterTry"
    /\ UNCHANGED << provider, config, timers, batch, tasks, idx, dlqBatch, dlqTasks,
                    dlqIdx, calls, log, exitCode >>

\* The receive on the primary queue fails: the catch block of pollQueue logs it.
ReceiveFails ==
    /\ pc = "receive"
    /\ LastAttempt(ReceiveCall("primary"))
    /\ retries' = Clear(ReceiveCall("primary"))
    /\ recv' = "failed"
    /\ log' = log \o <<Line("error", "Error receiving messages:", 0)>>
    /\ pc' = "afterTry"
    /\ UNCHANGED << provider, config, timers, batch, tasks, idx, dlqBatch, dlqTasks,
                    dlqIdx, calls, exitCode >>

\* for (const message of data.Messages) of part_002, after the call for
\* message idx has settled as `task` and logged `lines`: the catch block of
\* the loop logs a rejection, and the loop goes on to the next message.
loopAdvance(task, lines) ==
    /\ tasks' = [tasks EXCEPT ![idx] = task]
    /\ log' = log \o lines \o
              (IF task.st = "rejected"
               THEN <<Line("error", "Failed to process message:", batch[idx].MessageId)>>
               ELSE <<>>)
    /\ idx' = idx + 1
    /\ pc' = IF idx + 1 > Len(batch) THEN "afterTry" ELSE "loop"

\* The for loop of part_002 calling processMessage(message) without `await`:
\* the loop goes on to the next message while the call is still under way.
LoopNextNoAwait ==
    /\ pc = "loop"
    /\ idx <= Len(batch)
    /\ tasks[idx].st = "new"
    /\ LET ran == processMessage(batch[idx], FALSE)
       IN  /\ tasks' = [tasks EXCEPT ![idx] = ran.task]
           /\ log' = log \o ran.lines
           /\ calls' = calls \o ran.sent
    /\ idx' = idx + 1
    /\ pc' = IF idx + 1 > Len(batch) THEN "afterTry" ELSE "loop"
    /\ UNCHANGED << provider, config, timers, retries, batch, dlqBatch, dlqTasks, dlqIdx, recv, exitCode >>

\* part_002: `await processMessage(message)` for the next message of the batch.
LoopNext ==
    /\ pc = "loop"
    /\ idx <= Len(batch)
    /\ tasks[idx].st = "new"
    /\ LET ran == processMessage(batch[idx], FALSE)
       IN  /\ IF ran.task.st \in {"rejected", "resolved"}
              THEN loopAdvance(ran.task, ran.lines)
              ELSE /\ tasks' = [tasks EXCEPT ![idx] = ran.task]
                   /\ log' = log \o ran.lines
                   /\ UNCHANGED << idx, pc >>
           /\ calls' = calls \o ran.sent
    /\ UNCHANGED << provider, config, timers, retries, batch, dlqBatch, dlqTasks, dlqIdx, recv, exitCode >>

\* part_002 with the deleteMessage call left out of processMessage.
ReportDataDoneNoDelete ==
    /\ pc = "loop"
    /\ idx \in DOMAIN tasks
    /\ tasks[idx].st = "awaitReport"
    /\ loopAdvance([tasks[idx] EXCEPT !.st = "resolved"],
                   <<Line("log", "Report processed", batch[idx].MessageId)>>)
    /\ UNCHANGED << provider, config, timers, retries, batch, dlqBatch, dlqTasks, dlqIdx, calls, recv, exitCode >>

\* part_002: the timer of processReportData fires, `await processReportData`
\* returns and processMessage calls deleteMessage(message.ReceiptHandle).
ReportDataDone ==
    \E k \in DOMAIN tasks :
        /\ pc # "exited"
        /\ tasks[k].st = "awaitReport"
        /\ tasks' = [tasks EXCEPT ![k].st = "awaitDelete",
                                  ![k].steps = @ \o <<"delete">>]
        /\ log' = log \o <<Line("log", "Report processed", batch[k].MessageId)>>
        /\ calls' = calls \o <<deleteMessageV(batch[k].ReceiptHandle)>>
        /\ UNCHANGED << provider, config, timers, retries, pc, batch, idx, dlqBatch, dlqTasks,
                        dlqIdx, recv, exitCode >>

\* Promise.all settles: it rejects as soon as one processMessage has rejected
\* (the catch block of pollQueue logs that) and resolves once all have resolved.
AllSettle ==
    /\ pc = "awaitAll"
    /\ \/ \E k \in DOMAIN tasks : tasks[k].st = "rejected"
       \/ \A k \in DOMAIN tasks : tasks[k].st = "resolved"
    /\ log' = log \o
              (IF \E k \in DOMAIN tasks : tasks[k].st = "rejected"
               THEN <<Line("error", "Error receiving messages:", 0)>>
               ELSE <<>>)
    /\ pc' = "afterTry"
    /\ UNCHANGED << provider, config, timers, retries, batch, tasks, idx, dlqBatch, dlqTasks,
                    dlqIdx, calls, recv, exitCode >>

\* The end of pollQueue when the DLQ is not drained: part_001 and part_002
\* never drain it, PetClinicReportProcessor.js when Math.random() >= 0.1.
\* setTimeout(pollQueue, ...) schedules the next poll.
SkipDlq ==
    /\ pc = "afterTry"
    /\ setTimeoutPollQueue
    /\ UNCHANGED << provider, config, retries, batch, tasks, idx, dlqBatch, dlqTasks,
                    dlqIdx, calls, log, recv, exitCode >>

\* pollQueue calling processDeadLetterQueue() without `await`: it goes on to
\* setTimeout(pollQueue, ...) while the drain is under way.
StartDlqNoAwait ==
    /\ pc = "afterTry"
    /\ variant = VMain
    /\ pc' = "dlqReceive"
    /\ timers' = timers + 1
    /\ UNCHANGED << provider, config, retries, batch, tasks, idx, dlqBatch, dlqTasks,
                    dlqIdx, calls, log, recv, exitCode >>

\* Math.random() < 0.1: pollQueue awaits processDeadLetterQueue(), which
\* sends its receive on the DLQ.
StartDlq ==
    /\ pc = "afterTry"
    /\ variant = VMain
    /\ pc' = "dlqReceive"
    /\ UNCHANGED << provider, config, timers, retries, batch, tasks, idx, dlqBatch, dlqTasks,
                    dlqIdx, calls, log, recv, exitCode >>


\* processDeadLetterQueue: the receive on the DLQ returns.  With no message
\* the function returns and pollQueue schedules the next poll.
DlqReceiveReturns ==
    /\ pc = "dlqReceive"
    /\ \E S \in Receivable("dlq") :
         LET msgs == Messages(S, "dlq")
             n    == Len(msgs)
         IN  /\ Delivered(S)
             /\ dlqBatch' = msgs
             /\ dlqTasks' = [k \in 1..n |-> NewTask]
             /\ IF n = 0
                THEN /\ setTimeoutPollQueue
                     /\ UNCHANGED << dlqIdx, log >>
                ELSE /\ pc' = "dlqLoop"
                     /\ UNCHANGED timers
                     /\ dlqIdx' = 1
                     /\ log' = log \o <<Line("log", "Processing messages from DLQ", 0)>>
    /\ retries' = Clear(ReceiveCall("dlq"))
    /\ UNCHANGED << config, batch, tasks, idx, calls, recv, exitCode >>

\* The receive on the DLQ fails: the outer catch block of
\* processDeadLetterQueue logs it, and pollQueue schedules the next poll.
DlqReceiveFails ==
    /\ pc = "dlqReceive"
    /\ LastAttempt(ReceiveCall("dlq"))
    /\ retries' = Clear(ReceiveCall("dlq"))
    /\ log' = log \o <<Line("error", "Error processing DLQ:", 0)>>
    /\ setTimeoutPollQueue
    /\ UNCHANGED << provider, config, batch, tasks, idx, dlqBatch, dlqTasks,
                    dlqIdx, calls, recv, exitCode >>

\* The for loop of processDeadLetterQueue after the body for message dlqIdx
\* has ended as `task` and logged `lines`: the inner catch block logs a
\* failure, a success is logged, and the loop goes on; after the last
\* message pollQueue schedules the next poll.
dlqAdvance(task, lines) ==
    /\ dlqTasks' = [dlqTasks EXCEPT ![dlqIdx] = task]
    /\ log' = log \o lines \o
              (IF task.st = "rejected"
               THEN <<Line("error", "Failed to reprocess DLQ message:", dlqBatch[dlqIdx].MessageId)>>
               ELSE <<Line("log", "Successfully reprocessed message from DLQ", dlqBatch[dlqIdx].MessageId)>>)
    /\ dlqIdx' = dlqIdx + 1
    /\ IF dlqIdx + 1 > Len(dlqBatch)
       THEN setTimeoutPollQueue
       ELSE pc' = "dlqLoop" /\ UNCHANGED timers

\* The loop body of processDeadLetterQueue once processMessage(message, true)
\* has resolved: `await deleteMessage(message.ReceiptHandle, dlqUrl)`.
dlqDelete(task, lines) ==
    /\ dlqTasks' = [dlqTasks EXCEPT ![dlqIdx] =
                       [task EXCEPT !.st = "awaitDelete2", !.steps = @ \o <<"delete">>]]
    /\ log' = log \o lines
    /\ calls' = calls \o <<deleteMessage(dlqBatch[dlqIdx].ReceiptHandle, dlqUrl)>>
    /\ UNCHANGED << dlqIdx, pc, timers >>

\* processDeadLetterQueue: `await processMessage(message, true)` for the
\* next message of the DLQ batch.
DlqLoopNext ==
    /\ pc = "dlqLoop"
    /\ dlqIdx <= Len(dlqBatch)
    /\ dlqTasks[dlqIdx].st = "new"
    /\ LET ran == processMessage(dlqBatch[dlqIdx], TRUE)
       IN  CASE ran.task.st = "rejected" ->
                  /\ dlqAdvance(ran.task, ran.lines)
                  /\ calls' = calls \o ran.sent
             [] ran.task.st = "resolved" ->
                  dlqDelete(ran.task, ran.lines)
             [] OTHER ->
                  /\ dlqTasks' = [dlqTasks EXCEPT ![dlqIdx] = ran.task]
                  /\ log' = log \o ran.lines
                  /\ calls' = calls \o ran.sent
                  /\ UNCHANGED << dlqIdx, pc, timers >>
    /\ UNCHANGED << provider, config, retries, batch, tasks, idx, dlqBatch, recv, exitCode >>

\* The consumer's side of a DeleteMessageCommand that has come back with
\* `outcome`, for the processMessage call k of the primary batch
\* (inDlq = FALSE) or for the call or the loop body k of the DLQ drain.
deleteSettles(inDlq, k, outcome) ==
    IF ~inDlq
    THEN LET ran == afterDelete(tasks[k], batch[k].MessageId, outcome)
         IN  /\ IF variant = V2
                THEN loopAdvance(ran.task, ran.lines)
                ELSE /\ tasks' = [tasks EXCEPT ![k] = ran.task]
                     /\ log' = log \o ran.lines
                     /\ UNCHANGED << idx, pc >>
             /\ UNCHANGED << calls, dlqTasks, dlqIdx, timers >>
    ELSE IF dlqTasks[k].st = "awaitDelete"
    THEN LET ran == afterDelete(dlqTasks[k], dlqBatch[k].MessageId, outcome)
         IN  /\ IF ran.task.st = "rejected"
                THEN dlqAdvance(ran.task, ran.lines) /\ UNCHANGED calls
                ELSE dlqDelete(ran.task, ran.lines)
             /\ UNCHANGED << tasks, idx >>
    ELSE /\ dlqAdvance([dlqTasks[k] EXCEPT !.st  = IF outcome.threw THEN "rejected" ELSE "resolved",
                                           !.err = outcome.error],
                       IF outcome.threw
                       THEN <<Line("error", "Error deleting message:", dlqBatch[k].MessageId)>>
                       ELSE <<>>)
         /\ UNCHANGED << calls, tasks, idx >>

\* The calls that wait for the answer to a DeleteMessageCommand, as
\* <<inDlq, k>>, and the command each waits for.
AwaitingDelete ==
    { <<FALSE, k>> : k \in { j \in DOMAIN tasks : tasks[j].st = "awaitDelete" } }
    \cup
    { <<TRUE, k>> : k \in { j \in DOMAIN dlqTasks :
                              dlqTasks[j].st \in {"awaitDelete", "awaitDelete2"} } }

HandleOf(w) == IF w[1] THEN dlqBatch[w[2]].ReceiptHandle ELSE batch[w[2]].ReceiptHandle

CommandOf(w) == CHOOSE c \in Range(calls) : c.ReceiptHandle = HandleOf(w)

\* The provider answers a DeleteMessageCommand: it removes the message when
\* the receipt handle is good, and rejects the command when it is not.
DeleteReturns ==
    \E w \in AwaitingDelete :
        LET params == CommandOf(w)
            id     == params.ReceiptHandle[2]
        IN  /\ pc # "exited"
            /\ IF Deletable(params)
               THEN /\ where' = [where EXCEPT ![id] = "deleted"]
                    /\ inflight' = [inflight EXCEPT ![id] = FALSE]
                    /\ deleteSettles(w[1], w[2], Ok(Undefined))
               ELSE /\ UNCHANGED << where, inflight >>
                    /\ deleteSettles(w[1], w[2], Throws(ReceiptHandleIsInvalid))
            /\ retries' = Clear(DeleteCall(HandleOf(w)))
            /\ UNCHANGED << body, rc, config, batch, dlqBatch, recv, exitCode >>

\* A DeleteMessageCommand fails for good (network, 5xx) after the SDK's
\* attempts: the message stays as it is.
DeleteFails ==
    \E w \in AwaitingDelete :
        /\ pc # "exited"
        /\ LastAttempt(DeleteCall(HandleOf(w)))
        /\ retries' = Clear(DeleteCall(HandleOf(w)))
        /\ deleteSettles(w[1], w[2], Throws(TransientQueueError))
        /\ UNCHANGED << provider, config, batch, dlqBatch, recv, exitCode >>

\* The commands the consumer is waiting for.
PendingCalls ==
    (IF pc = "receive" THEN {ReceiveCall("primary")} ELSE {})
    \cup (IF pc = "dlqReceive" THEN {ReceiveCall("dlq")} ELSE {})
    \cup { DeleteCall(HandleOf(w)) : w \in AwaitingDelete }

\* The SDK repeating a failed attempt however many have failed before.
RetryUnbounded ==
    \E call \in PendingCalls :
        /\ pc # "exited"
        /\ retries' = Bump(call)
        /\ UNCHANGED << provider, config, timers, pc, batch, tasks, idx, dlqBatch, dlqTasks,
                        dlqIdx, calls, log, recv, exitCode >>

\* sqsClient.send: an attempt of a pending command fails for a transient
\* reason (network, 5xx) and the SDK makes another, up to maxAttempts in all.
Retry ==
    \E call \in PendingCalls :
        /\ pc # "exited"
        /\ Failures(call) < maxAttempts - 1
        /\ retries' = Bump(call)
        /\ UNCHANGED << provider, config, timers, pc, batch, tasks, idx, dlqBatch, dlqTasks,
                        dlqIdx, calls, log, recv, exitCode >>

\* process.on('SIGINT', ...): log and process.exit(0), whatever is in flight.
Sigint ==
    /\ pc # "exited"
    /\ pc' = "exited"
    /\ exitCode' = 0
    /\ log' = log \o <<Line("log", IF variant = V2
                                   THEN "Gracefully shutting down SQS consumer"
                                   ELSE "Shutting down SQS consumer", 0)>>
    /\ UNCHANGED << provider, config, timers, retries, batch, tasks, idx, dlqBatch, dlqTasks,
                    dlqIdx, calls, recv >>

\* process.on('SIGTERM', ...) of part_002: log and process.exit(0) as well.
Sigterm ==
    /\ variant = V2
    /\ pc # "exited"
    /\ pc' = "exited"
    /\ exitCode' = 0
    /\ log' = log \o <<Line("log", "Received SIGTERM, shutting down gracefully", 0)>>
    /\ UNCHANGED << provider, config, timers, retries, batch, tasks, idx, dlqBatch, dlqTasks,
                    dlqIdx, calls, recv >>

\* A DeleteMessageCommand that was on its way when the process exited may
\* still reach the provider; nobody is left to take the answer.
DeleteLandsAfterExit ==
    \E w \in AwaitingDelete :
        LET params == CommandOf(w)
            id     == params.ReceiptHandle[2]
        IN  /\ pc = "exited"
            /\ Deletable(params)
            /\ where' = [where EXCEPT ![id] = "deleted"]
            /\ inflight' = [inflight EXCEPT ![id] = FALSE]
            /\ UNCHANGED << body, rc, config, timers, retries, pc, batch, tasks, idx, dlqBatch,
                            dlqTasks, dlqIdx, calls, log, recv, exitCode >>

\* ------------------------------------------------------ specification
Init ==
    /\ variant \in Variants
    /\ queueUrl \in { QueueUrlOf(variant, e) : e \in {PrimaryUrl, NoUrl} }
    /\ where = [i \in Ids |-> "unsent"]
    /\ body = [i \in Ids |-> Malformed]
    /\ rc = [i \in Ids |-> 0]
    /\ inflight = [i \in Ids |-> FALSE]
    /\ pc = "main"
    /\ batch = <<>> /\ tasks = <<>> /\ idx = 0
    /\ dlqBatch = <<>> /\ dlqTasks = <<>> /\ dlqIdx = 0
    /\ calls = <<>>
    /\ log = <<>>
    /\ retries = NoRetries
    /\ timers = 0
    /\ recv = "pending"
    /\ exitCode = -1

\* The consumer's steps when nothing fails.
Steps ==
    \/ main
    \/ TimerFires
    \/ ReceiveReturns
    \/ LoopNext
    \/ ReportDataDone
    \/ AllSettle
    \/ SkipDlq
    \/ StartDlq
    \/ DlqReceiveReturns
    \/ DlqLoopNext
    \/ DeleteReturns

\* Calls to the provider that fail after the SDK's attempts.
Faults ==
    \/ Retry
    \/ ReceiveFails
    \/ DlqReceiveFails
    \/ DeleteFails

\* Shutdown signals, and what a shutdown leaves on its way to the provider.
Signals ==
    \/ Sigint
    \/ Sigterm
    \/ DeleteLandsAfterExit

Next ==
    \/ Send
    \/ VisibilityTimeout
    \/ Steps
    \/ Faults
    \/ Signals

Spec == Init /\ [][Next]_vars

\* The validation model: one message, with any body of AllBodies, is on the
\* primary queue when the consumer starts, and no other is ever sent.
InitValidate ==
    /\ variant \in Variants
    /\ queueUrl = PrimaryUrl
    /\ where = [i \in Ids |-> IF i = 1 THEN "primary" ELSE "unsent"]
    /\ body \in { [i \in Ids |-> IF i = 1 THEN b ELSE Malformed] : b \in AllBodies }
    /\ rc = [i \in Ids |-> 0]
    /\ inflight = [i \in Ids |-> FALSE]
    /\ pc = "main"
    /\ batch = <<>> /\ tasks = <<>> /\ idx = 0
    /\ dlqBatch = <<>> /\ dlqTasks = <<>> /\ dlqIdx = 0
    /\ calls = <<>>
    /\ log = <<>>
    /\ retries = NoRetries
    /\ timers = 0
    /\ recv = "pending"
    /\ exitCode = -1

NextValidate ==
    \/ VisibilityTimeout
    \/ Steps
    \/ Faults
    \/ Signals

ValidateSpec == InitValidate /\ [][NextValidate]_vars

\* The fair model: no call to the provider fails for good, no signal
\* arrives, every visibility timeout runs out, every answer and every timer
\* comes, and Math.random() < 0.1 comes true again and again.
NextFair ==
    \/ Send
    \/ VisibilityTimeout
    \/ Steps

FairSpec ==
    /\ Init
    /\ [][NextFair]_vars
    /\ \A i \in Ids : WF_vars(ExpireOf(i, MaxReceiveCount))
    /\ WF_vars(main) /\ WF_vars(TimerFires) /\ WF_vars(ReceiveReturns)
    /\ WF_vars(LoopNext) /\ WF_vars(ReportDataDone) /\ WF_vars(AllSettle)
    /\ WF_vars(SkipDlq \/ StartDlq) /\ SF_vars(StartDlq)
    /\ WF_vars(DlqReceiveReturns) /\ WF_vars(DlqLoopNext)
    /\ WF_vars(DeleteReturns)


\* The model of the loop's liveness: calls to the provider may fail for good,
\* no signal arrives, and every pending answer (good or bad) and every timer
\* comes.
NextLive ==
    \/ Send
    \/ VisibilityTimeout
    \/ Steps
    \/ Faults

LiveSpec ==
    /\ Init
    /\ [][NextLive]_vars
    /\ \A i \in Ids : WF_vars(ExpireOf(i, MaxReceiveCount))
    /\ WF_vars(main) /\ WF_vars(TimerFires)
    /\ WF_vars(ReceiveReturns \/ ReceiveFails)
    /\ WF_vars(LoopNext) /\ WF_vars(ReportDataDone) /\ WF_vars(AllSettle)
    /\ WF_vars(SkipDlq \/ StartDlq)
    /\ WF_vars(DlqReceiveReturns \/ DlqReceiveFails) /\ WF_vars(DlqLoopNext)
    /\ WF_vars(DeleteReturns \/ DeleteFails)


\* The backlog model: Backlog complete messages wait on the primary queue and
\* as many on the DLQ when the consumer starts (more than one receive may
\* return); no message is sent, no visibility timeout runs out during the
\* run and no call to the provider fails.
InitBacklog ==
    /\ variant \in Variants
    /\ queueUrl = PrimaryUrl
    /\ where = [i \in 1..(2 * Backlog) |-> IF i <= Backlog THEN "primary" ELSE "dlq"]
    /\ body = [i \in 1..(2 * Backlog) |-> ValidBody]
    /\ rc = [i \in 1..(2 * Backlog) |-> 0]
    /\ inflight = [i \in 1..(2 * Backlog) |-> FALSE]
    /\ pc = "main"
    /\ batch = <<>> /\ tasks = <<>> /\ idx = 0
    /\ dlqBatch = <<>> /\ dlqTasks = <<>> /\ dlqIdx = 0
    /\ calls = <<>>
    /\ log = <<>>
    /\ retries = NoRetries
    /\ timers = 0
    /\ recv = "pending"
    /\ exitCode = -1

NextBacklog ==
    \/ Steps
    \/ Signals

BacklogSpec == InitBacklog /\ [][NextBacklog]_vars


\* Bodies that fail validation for good.
InvalidBodies == { Malformed, NullBody, Defect("vetName", "absent"), Defect("petId", "empty") }

\* The model of redelivery: one message that fails validation for good is
\* on the primary queue when the consumer starts (others may be sent
\* later), the redrive policy allows
\* RedriveCount receives, no call to the provider fails and no signal
\* arrives; every visibility timeout runs out, every answer and every timer
\* comes.
InitRedrive ==
    /\ variant \in Variants
    /\ queueUrl = PrimaryUrl
    /\ where = [i \in Ids |-> IF i = 1 THEN "primary" ELSE "unsent"]
    /\ body \in { [i \in Ids |-> IF i = 1 THEN b ELSE Malformed] : b \in InvalidBodies }
    /\ rc = [i \in Ids |-> 0]
    /\ inflight = [i \in Ids |-> FALSE]
    /\ pc = "main"
    /\ batch = <<>> /\ tasks = <<>> /\ idx = 0
    /\ dlqBatch = <<>> /\ dlqTasks = <<>> /\ dlqIdx = 0
    /\ calls = <<>>
    /\ log = <<>>
    /\ retries = NoRetries
    /\ timers = 0
    /\ recv = "pending"
    /\ exitCode = -1

NextRedrive ==
    \/ Send
    \/ VisibilityTimeoutRedrive
    \/ Steps

RedriveSpec ==
    /\ InitRedrive
    /\ [][NextRedrive]_vars
    /\ \A i \in Ids : WF_vars(ExpireOf(i, RedriveCount))
    /\ WF_vars(main) /\ WF_vars(TimerFires) /\ WF_vars(ReceiveReturns)
    /\ WF_vars(LoopNext) /\ WF_vars(ReportDataDone) /\ WF_vars(AllSettle)
    /\ WF_vars(SkipDlq \/ StartDlq) /\ SF_vars(StartDlq)
    /\ WF_vars(DlqReceiveReturns) /\ WF_vars(DlqLoopNext)
    /\ WF_vars(DeleteReturns)


\* ============================================================== claims
\* What the claims say about a body, stated on the body itself.
\* Every required field is there and is a non-empty string.
BodyComplete(b) ==
    /\ b.wellFormed
    /\ b.json.jstype = "object"
    /\ \A f \in FieldNames :
          /\ f \in DOMAIN b.json.props
          /\ b.json.props[f].jstype = "string"
          /\ b.json.props[f].chars # <<>>

\* The body parses, and a required field is absent, null or the empty string.
BodyMissingField(b) == b.wellFormed /\ ~BodyComplete(b)

BodyInvalid(b) == ~b.wellFormed \/ BodyMissingField(b)

\* The positions in `calls` of the DeleteMessageCommands for receipt handle h.
CallsFor(h) == { c \in DOMAIN calls : calls[c].ReceiptHandle = h }

Settled(task) == task.st \in {"resolved", "rejected"}

\* C1: no delete on failure.  A message of the primary batch or of the DLQ
\* batch whose body does not parse or lacks a required field has no
\* DeleteMessageCommand for its receipt handle in its poll cycle, and neither
\* has any message whose processMessage call ended before its delete step.
C1_NoDeleteOnFailure ==
    /\ \A m \in Range(batch) \cup Range(dlqBatch) :
          BodyInvalid(m.Body) => CallsFor(m.ReceiptHandle) = {}
    /\ \A k \in DOMAIN tasks :
          (Settled(tasks[k]) /\ tasks[k].steps # <<>> /\ tasks[k].steps[Len(tasks[k].steps)] # "delete")
             => CallsFor(batch[k].ReceiptHandle) = {}
    /\ \A k \in DOMAIN dlqTasks :
          (Settled(dlqTasks[k]) /\ dlqTasks[k].steps # <<>>
              /\ dlqTasks[k].steps[Len(dlqTasks[k].steps)] # "delete")
             => CallsFor(dlqBatch[k].ReceiptHandle) = {}

\* C1 witness: in one cycle a failed message of the primary batch and a
\* failed message of the DLQ batch have both been through processMessage.
C1_Witness ==
    /\ \E k \in DOMAIN tasks : BodyInvalid(batch[k].Body) /\ tasks[k].st = "rejected"
    /\ \E k \in DOMAIN dlqTasks : BodyInvalid(dlqBatch[k].Body) /\ dlqTasks[k].st = "rejected"

\* C2: delete after success on the primary path.  A message of the primary
\* batch has at most one DeleteMessageCommand, it names the primary queue,
\* every command with a primary handle belongs to a message of the batch
\* that was mapped, and a message that was mapped and has gone on to its
\* delete step has exactly one.
C2_DeleteAfterSuccessPrimary ==
    /\ \A k \in DOMAIN tasks :
          LET cs == CallsFor(batch[k].ReceiptHandle)
          IN  /\ Cardinality(cs) <= 1
              /\ \A c \in cs : calls[c].QueueUrl = PrimaryUrl
              /\ (tasks[k].report # NoReport /\ tasks[k].st \in {"awaitDelete", "resolved", "rejected"})
                    => Cardinality(cs) = 1
    /\ \A c \in DOMAIN calls :
          calls[c].ReceiptHandle[1] = "primary" =>
             \E k \in DOMAIN tasks :
                /\ batch[k].ReceiptHandle = calls[c].ReceiptHandle
                /\ tasks[k].report # NoReport

\* C2 witness: a mapped message of the primary batch has been deleted.
C2_Witness ==
    \E k \in DOMAIN tasks :
        /\ tasks[k].report # NoReport
        /\ tasks[k].st = "resolved"
        /\ where[batch[k].MessageId] = "deleted"
        /\ Cardinality(CallsFor(batch[k].ReceiptHandle)) = 1

\* C3 (as claimed): a complete message of the DLQ batch whose loop body has
\* ended has exactly one DeleteMessageCommand, for the DLQ, and counts as
\* reprocessed, not as failed.
C3_DlqDeleteAfterSuccess ==
    \A k \in DOMAIN dlqTasks :
        (BodyComplete(dlqBatch[k].Body) /\ k < dlqIdx) =>
            LET cs == CallsFor(dlqBatch[k].ReceiptHandle)
            IN  /\ Cardinality(cs) = 1
                /\ \A c \in cs : calls[c].QueueUrl = dlqUrl
                /\ dlqTasks[k].st = "resolved"

\* C4: queue identity.  Every DeleteMessageCommand names the queue its
\* receipt handle was issued by: commands for messages of the primary batch
\* name the primary queue, commands for messages of the DLQ batch the DLQ.
C4_QueueIdentity ==
    /\ \A c \in DOMAIN calls : QueueOf(calls[c].QueueUrl) = calls[c].ReceiptHandle[1]
    /\ \A k \in DOMAIN batch :
          \A c \in CallsFor(batch[k].ReceiptHandle) : calls[c].QueueUrl = queueUrl
    /\ \A k \in DOMAIN dlqBatch :
          \A c \in CallsFor(dlqBatch[k].ReceiptHandle) : calls[c].QueueUrl = dlqUrl

\* C4 witness: a delete of a primary message is under way while the DLQ
\* holds a message.
C4_Witness ==
    /\ \E c \in DOMAIN calls : calls[c].ReceiptHandle[1] = "primary"
    /\ \E i \in Ids : where[i] = "dlq"


\* C5 (as claimed): in PetClinicReportProcessor.js, with a queue URL, under
\* fair scheduling and a provider that does not fail, every complete
\* message on the primary queue is eventually deleted.
C5_EventuallyDeleted ==
    (variant = VMain /\ queueUrl = PrimaryUrl) =>
        \A i \in Ids :
            [] ((where[i] = "primary" /\ BodyComplete(body[i])) => <> (where[i] = "deleted"))


\* The processMessage calls of the present cycle that have run, each with
\* the message it was given.
RanCalls ==
    { [msg |-> batch[k], task |-> tasks[k]] : k \in { j \in DOMAIN tasks : tasks[j].st # "new" } }
    \cup
    { [msg |-> dlqBatch[k], task |-> dlqTasks[k]] :
         k \in { j \in DOMAIN dlqTasks : dlqTasks[j].st # "new" } }

\* The error processMessage rejects with for a missing field.
MissingFieldError ==
    IF variant = V2 THEN WrapV2(InvalidFormatV2) ELSE WrapMain(InvalidFormatMain)

\* C6: a body in which a required field is absent, null or the empty string
\* never yields a report and never reaches the delete step; in the two
\* versions that validate (PetClinicReportProcessor.js, part_002) the call
\* ends in the field check, rejected with the invalid-format error.
C6_MissingFieldFails ==
    \A r \in RanCalls :
        BodyMissingField(r.msg.Body) =>
            /\ r.task.report = NoReport
            /\ CallsFor(r.msg.ReceiptHandle) = {}
            /\ variant \in {VMain, V2} =>
                  /\ r.task.st = "rejected"
                  /\ r.task.steps = <<"parse", "validate">>
                  /\ r.task.err = MissingFieldError

\* C6 witness: the last field of the list is null, and the call was rejected.
C6_Witness ==
    \E r \in RanCalls :
        /\ r.msg.Body = Defect("appointmentDescription", "null")
        /\ r.task.st = "rejected"
        /\ variant = V2

\* C7 (as claimed): a body with all 13 fields non-empty is mapped: the call
\* builds a report and goes on to the delete step (it does not end rejected
\* or swallowed before it).
C7_CompleteSucceeds ==
    \A r \in RanCalls :
        BodyComplete(r.msg.Body) =>
            /\ r.task.report # NoReport
            /\ Settled(r.task) => r.task.steps[Len(r.task.steps)] = "delete"

\* C8: in the two versions that validate, a body that does not parse is
\* rejected at the parse step, before any field check, with an error that
\* differs from the missing-field error of every call of the cycle, and in
\* neither case is a delete issued.
C8_MalformedDistinct ==
    variant \in {VMain, V2} =>
        /\ \A r \in RanCalls :
              ~r.msg.Body.wellFormed =>
                  /\ r.task.st = "rejected"
                  /\ r.task.steps = <<"parse">>
                  /\ r.task.err # MissingFieldError
                  /\ CallsFor(r.msg.ReceiptHandle) = {}
        /\ \A r, q \in RanCalls :
              (~r.msg.Body.wellFormed /\ BodyMissingField(q.msg.Body)) =>
                  /\ r.task.err # q.task.err
                  /\ q.task.err = MissingFieldError
                  /\ CallsFor(q.msg.ReceiptHandle) = {}

\* C8 witness: one cycle has rejected a body that does not parse and a body
\* with a missing field.
C8_Witness ==
    /\ variant \in {VMain, V2}
    /\ \E r, q \in RanCalls :
          /\ ~r.msg.Body.wellFormed /\ r.task.st = "rejected"
          /\ BodyMissingField(q.msg.Body) /\ q.task.st = "rejected"

\* The primary batch has been dealt with: pollQueue is past its try block.
BatchDone == pc \in {"afterTry", "dlqReceive", "dlqLoop", "timer"}

\* The primary batch holds a complete message and an invalid one.
MixedBatch ==
    /\ \E k \in DOMAIN batch : BodyComplete(batch[k].Body)
    /\ \E k \in DOMAIN batch : BodyInvalid(batch[k].Body)

\* C9 (as claimed): in PetClinicReportProcessor.js and part_002, once a
\* primary batch that mixes complete and invalid messages has been dealt
\* with, every complete message of it has
\* exactly one DeleteMessageCommand, for the primary queue, every invalid one
\* has none and one logged failure, and no command names the DLQ.
C9_BatchIsolation ==
    (variant \in {VMain, V2} /\ BatchDone /\ MixedBatch) =>
        /\ \A k \in DOMAIN batch :
              LET cs == CallsFor(batch[k].ReceiptHandle)
              IN  IF BodyComplete(batch[k].Body)
                  THEN Cardinality(cs) = 1 /\ \A c \in cs : calls[c].QueueUrl = queueUrl
                  ELSE /\ cs = {}
                       /\ \E l \in DOMAIN log :
                             /\ log[l].id = batch[k].MessageId
                             /\ log[l].text = "Error processing message:"
        /\ dlqBatch = <<>> => \A c \in DOMAIN calls : calls[c].QueueUrl # dlqUrl

\* The receive on the primary queue of the present cycle returned no message.
EmptyCycle == recv = "empty"

\* C10 (as claimed): in a cycle whose receive on the primary queue returned
\* no message, no processMessage call runs and no delete is issued, the
\* empty answer is not logged as an error, and the cycle goes on to schedule
\* the next poll.
C10_EmptyReceiveNoWork ==
    EmptyCycle =>
        /\ RanCalls = {}
        /\ calls = <<>>
        /\ \A l \in DOMAIN log : log[l].text # "Error receiving messages:"
        /\ pc \in {"afterTry", "dlqReceive", "dlqLoop", "timer", "exited"}

\* What holds of a cycle whose receive on the primary queue was empty.
EmptyCycleQuiet ==
    EmptyCycle =>
        /\ batch = <<>> /\ tasks = <<>>
        /\ \A c \in DOMAIN calls : calls[c].ReceiptHandle[1] # "primary"
        /\ \A l \in DOMAIN log : log[l].text # "Error receiving messages:"
        /\ pc \in {"afterTry", "dlqReceive", "dlqLoop", "timer", "exited"}
        /\ RanCalls # {} => (variant = VMain /\ pc \in {"dlqLoop", "timer", "exited"})

\* A step that sends a receive on the primary queue is the start of the
\* program or the firing of the timer of setTimeout(pollQueue, ...).
PollOnlyByTimer == (pc' = "receive" /\ pc # "receive") => pc \in {"main", "timer"}

\* C10 (amended): in such a cycle no processMessage call runs for a message
\* of the primary queue and no delete is issued for one, the empty answer is
\* not logged as an error, and the cycle goes on to schedule the next poll,
\* which starts only when the timer fires; processMessage runs only for the
\* DLQ messages of a drain that PetClinicReportProcessor.js starts before
\* it schedules the next poll.
C10_EmptyReceiveNoPrimaryWork == [] EmptyCycleQuiet /\ [][PollOnlyByTimer]_vars

\* C10 witness: after an empty receive the next poll is scheduled, once
\* with nothing processed and once after a DLQ drain that processed a message.
C10_Witness ==
    /\ EmptyCycle
    /\ pc = "timer"
    /\ RanCalls # {}

\* pollQueue is between the end of its try block and the next receive.
CycleEnding == pc \in {"afterTry", "dlqReceive", "dlqLoop", "timer"}

\* C11: with a queue URL and no shutdown signal the process never ends,
\* whatever a poll cycle ran into (messages, none, rejected messages, failed
\* deletes, a failed receive, a failed DLQ drain), and the end of every cycle
\* is followed by a new receive on the primary queue.
C11_LoopNeverStops ==
    (queueUrl # NoUrl) =>
        /\ [] (pc # "exited" /\ exitCode = -1)
        /\ [] (CycleEnding => <> (pc = "receive" /\ recv = "pending"))

\* C11 witness: a cycle whose receive failed has scheduled the next poll, and
\* so has a cycle of part_002 in which a delete failed.
C11_Witness ==
    /\ pc = "timer"
    /\ exitCode = -1
    /\ \/ recv = "failed"
       \/ \E l \in DOMAIN log : log[l].text = "Error deleting message:"

\* The rejections processMessage makes of a delete that the provider refused
\* for its receipt handle.
StaleDeleteRejections ==
    { WrapMain(ReceiptHandleIsInvalid), WrapV2(ReceiptHandleIsInvalid), ReceiptHandleIsInvalid }

\* C12 (as claimed): a delete the provider refuses because the receipt handle
\* is stale is swallowed: no processMessage call and no loop body of the DLQ
\* drain ends rejected with that error, its message is not logged as failed,
\* and no receipt handle is sent to delete twice.
C12_StaleDeleteSwallowed ==
    /\ \A k \in DOMAIN tasks : tasks[k].err \notin StaleDeleteRejections
    /\ \A k \in DOMAIN dlqTasks : dlqTasks[k].err \notin StaleDeleteRejections
    /\ \A c, d \in DOMAIN calls :
          calls[c].ReceiptHandle = calls[d].ReceiptHandle => c = d

\* The process has ended on a shutdown signal.
ShutDown ==
    /\ pc = "exited"
    /\ \E l \in DOMAIN log :
          log[l].text \in { "Shutting down SQS consumer",
                            "Gracefully shutting down SQS consumer",
                            "Received SIGTERM, shutting down gracefully" }

\* A processMessage call that is waiting for its report timer or for the
\* answer to its DeleteMessageCommand.
InFlight(task) == task.st \in {"awaitReport", "awaitDelete", "awaitDelete2"}

\* C13 (as claimed): when the process has ended on a shutdown signal its exit
\* code is 0, no receive is pending, and no processMessage call was cut off
\* while it waited for its report timer or for the answer to its delete.
C13_GracefulDrain ==
    ShutDown =>
        /\ exitCode = 0
        /\ \A k \in DOMAIN tasks : ~InFlight(tasks[k])
        /\ \A k \in DOMAIN dlqTasks : ~InFlight(dlqTasks[k])

\* C14 (as claimed): without a queue URL the process never sends a receive
\* or a delete, and once it has ended (other than on a signal) it has logged
\* the missing variable and its exit code is 1.
C14_FailFast ==
    (queueUrl = NoUrl) =>
        /\ pc \in {"main", "exited"}
        /\ recv = "pending" /\ batch = <<>> /\ dlqBatch = <<>> /\ calls = <<>>
        /\ (pc = "exited" /\ ~ShutDown) =>
              /\ \E l \in DOMAIN log :
                    /\ log[l].lvl = "error"
                    /\ log[l].text = "SQS_QUEUE_URL environment variable is not set"
              /\ exitCode = 1

\* The reprocessing of message i by the DLQ drain has failed in this cycle.
DlqFailed(i) ==
    \E k \in DOMAIN dlqTasks : dlqBatch[k].MessageId = i /\ dlqTasks[k].st = "rejected"

\* A drain has received message i from the DLQ and is about to run
\* processMessage on it.
DlqFresh(i) ==
    \E k \in DOMAIN dlqTasks : dlqBatch[k].MessageId = i /\ dlqTasks[k].st = "new"

\* C15 (as claimed): a DLQ message whose reprocessing failed is not deleted,
\* and no later drain takes it up again.
C15_NoRetryAfterFailure ==
    \A i \in Ids :
        [] (DlqFailed(i) => [] (where[i] # "deleted" /\ ~DlqFresh(i)))

\* C16 (as claimed): when the same complete message has been through
\* processMessage twice in one cycle (from the primary batch, and again from
\* the DLQ batch after its visibility timeout ran out), both calls have built
\* a report, the two reports are equal, and the second call has not ended
\* rejected.
C16_DuplicateIdempotent ==
    \A k \in DOMAIN tasks : \A j \in DOMAIN dlqTasks :
        ( /\ batch[k].MessageId = dlqBatch[j].MessageId
          /\ BodyComplete(batch[k].Body)
          /\ Settled(tasks[k]) /\ Settled(dlqTasks[j]) ) =>
            /\ tasks[k].report # NoReport
            /\ dlqTasks[j].report = tasks[k].report
            /\ dlqTasks[j].st # "rejected"

TransientRejections ==
    { WrapMain(TransientQueueError), WrapV2(TransientQueueError), TransientQueueError }

\* Every command the SDK has had to repeat is pending, and fewer than
\* maxAttempts of its attempts have failed.
RetriesBounded ==
    \A p \in retries :
        /\ p[2] \in 1..(maxAttempts - 1)
        /\ pc # "exited" => p[1] \in PendingCalls

\* A transient failure that has reached the caller has been logged by it and
\* has not been taken for a success.
TransientSurfaced ==
    /\ recv = "failed" =>
          /\ batch = <<>> /\ tasks = <<>>
          /\ \E l \in DOMAIN log : log[l] = Line("error", "Error receiving messages:", 0)
    /\ \A k \in DOMAIN tasks :
          tasks[k].err \in TransientRejections =>
             /\ tasks[k].st = "rejected"
             /\ \E l \in DOMAIN log :
                   log[l] = Line("error", "Error deleting message:", batch[k].MessageId)
    /\ \A k \in DOMAIN dlqTasks :
          dlqTasks[k].err \in TransientRejections =>
             /\ dlqTasks[k].st = "rejected"
             /\ \E l \in DOMAIN log :
                   log[l] = Line("error", "Error deleting message:", dlqBatch[k].MessageId)

\* A step in which a transient failure reaches the caller of receive or of
\* delete is a step from the last attempt of that command.
SurfacesAfterLastAttempt ==
    /\ (recv' = "failed" /\ recv # "failed") => LastAttempt(ReceiveCall("primary"))
    /\ \A k \in DOMAIN tasks :
          (k \in DOMAIN tasks' /\ tasks'[k].err \in TransientRejections
              /\ tasks[k].err \notin TransientRejections)
             => LastAttempt(DeleteCall(batch[k].ReceiptHandle))
    /\ \A k \in DOMAIN dlqTasks :
          (k \in DOMAIN dlqTasks' /\ dlqTasks'[k].err \in TransientRejections
              /\ dlqTasks[k].err \notin TransientRejections)
             => LastAttempt(DeleteCall(dlqBatch[k].ReceiptHandle))

\* C18: a receive or a delete is attempted at most maxAttempts times; the
\* transient failure reaches the caller only when the last attempt has
\* failed, it reaches it as an error, and the caller logs it.
C18_BoundedRetry ==
    /\ [] (RetriesBounded /\ TransientSurfaced)
    /\ [][SurfacesAfterLastAttempt]_vars

\* C18 witness: a delete has failed for good, its processMessage call is
\* rejected with the transient error and the failure is logged.
C18_Witness ==
    \E k \in DOMAIN tasks :
        /\ tasks[k].err \in TransientRejections
        /\ tasks[k].st = "rejected"
        /\ \E l \in DOMAIN log : log[l].text = "Error deleting message:"

\* given name, one space, surname
FullName(given, surname) == Str(given.chars \o <<" ">> \o surname.chars)

\* C19 (as claimed): in the two versions that validate, every complete body
\* that has been through processMessage has a report whose id is petId, whose
\* owner and vet names are given name, one space, surname, and whose other
\* fields are those of the payload.
C19_MappedFields ==
    variant \in {VMain, V2} =>
        \A r \in RanCalls :
            BodyComplete(r.msg.Body) =>
                LET p   == r.msg.Body.json.props
                    rep == r.task.report
                IN  /\ rep # NoReport
                    /\ rep.id = p["petId"]
                    /\ rep.petInfo = [name |-> p["petName"], type |-> p["petType"]]
                    /\ rep.ownerInfo = [id |-> p["ownerId"],
                                        name |-> FullName(p["ownerName"], p["ownerSurname"])]
                    /\ rep.vetInfo = [id |-> p["vetId"],
                                      name |-> FullName(p["vetName"], p["vetSurname"])]
                    /\ rep.appointment = [date |-> p["appointmentDate"],
                                          time |-> p["appointmentTime"],
                                          type |-> p["appointmentType"],
                                          description |-> p["appointmentDescription"]]

\* Step a comes before step b in the steps of a processMessage call.
Precedes(steps, a, b) ==
    \E i, j \in DOMAIN steps : i < j /\ steps[i] = a /\ steps[j] = b

\* The processMessage calls handed the message with receipt handle h.
TasksOf(h) ==
    { tasks[k] : k \in { j \in DOMAIN tasks : batch[j].ReceiptHandle = h } }
    \cup { dlqTasks[k] : k \in { j \in DOMAIN dlqTasks : dlqBatch[j].ReceiptHandle = h } }

\* C20: every DeleteMessageCommand is for a message whose own processMessage
\* call has passed its field check and built its report before it went on
\* to delete; nothing orders the calls of different messages.
C20_DeleteAfterOwnPipeline ==
    \A c \in DOMAIN calls :
        /\ TasksOf(calls[c].ReceiptHandle) # {}
        /\ \A t \in TasksOf(calls[c].ReceiptHandle) :
              /\ Precedes(t.steps, "validate", "map")
              /\ Precedes(t.steps, "map", "delete")
              /\ t.report # NoReport

\* C20 witness: the second message of a batch has gone through validate, map
\* and delete while the first one was rejected.
C20_Witness ==
    /\ Len(tasks) = 2
    /\ tasks[1].st = "rejected"
    /\ tasks[2].steps = <<"parse", "validate", "map", "delete">>
    /\ CallsFor(batch[2].ReceiptHandle) # {}

\* A step that sends the next receive on the primary queue.
NextReceive == pc' = "receive" /\ pc # "receive" /\ pc # "main"

\* C21 (as claimed): after a cycle that received messages the next receive
\* is sent with no delay step in between (no timer is ever pending after
\* such a cycle), and after a cycle that received none it is sent by the
\* timer of the idle delay.
C21_Cadence ==
    /\ [] (pc = "timer" => recv # "messages")
    /\ [][NextReceive => (recv = "empty" => pc = "timer")]_vars

\* Every processMessage call of the primary batch has settled.
BatchSettled == \A k \in DOMAIN tasks : Settled(tasks[k])

\* C22: once pollQueue is past its try block (where it may start a DLQ
\* drain and schedules the next poll) every processMessage call of the batch
\* has settled, also when one of them was rejected, and so has every call of
\* the cycle when the next receive is sent.
C22_StructuredBatch ==
    /\ [] (BatchDone => BatchSettled)
    /\ [][NextReceive => (BatchSettled /\ \A k \in DOMAIN dlqTasks : Settled(dlqTasks[k]))]_vars

\* C22 witness: the next poll is scheduled after a batch of two in which one
\* call was rejected and the other went through to its delete.
C22_Witness ==
    /\ pc = "timer"
    /\ Len(tasks) = 2
    /\ \E k \in DOMAIN tasks : tasks[k].st = "rejected"
    /\ \E k \in DOMAIN tasks :
          tasks[k].st = "resolved" /\ CallsFor(batch[k].ReceiptHandle) # {}

\* The provider moves message i to the DLQ in this step: its visibility
\* timeout runs out after the receives its redrive policy allows, and the
\* step is none of the consumer's.
MovedByProvider(i) ==
    /\ where[i] = "primary" /\ inflight[i]
    /\ rc[i] >= RedriveCount
    /\ UNCHANGED << pc, batch, tasks, idx, dlqBatch, dlqTasks, dlqIdx, calls, log >>

\* Message i is on a queue with a body that fails validation.
PermanentlyInvalid(i) == where[i] \in {"primary", "dlq"} /\ BodyInvalid(body[i])

\* C23: a message whose body fails validation is never deleted, the consumer
\* sends no delete for it, it gets to the DLQ only by the provider's redrive
\* after its receives on the primary queue, and it ends up in the DLQ for good.
C23_InvalidEndsInDlq ==
    /\ [] (\A i \in Ids : BodyInvalid(body[i]) => where[i] # "deleted")
    /\ [] (\A i \in Ids :
              PermanentlyInvalid(i) => \A c \in DOMAIN calls : calls[c].ReceiptHandle[2] # i)
    /\ [][\A i \in Ids :
              (PermanentlyInvalid(i) /\ where[i] # "dlq" /\ where'[i] = "dlq")
                 => MovedByProvider(i)]_vars
    /\ \A i \in Ids : [] (PermanentlyInvalid(i) => <> [] (where[i] = "dlq"))

\* C23 witness: an invalid message was received a second time from the
\* primary queue, rejected again, and has then been moved to the DLQ.
C23_Witness ==
    \E k \in DOMAIN tasks :
        /\ BodyInvalid(batch[k].Body)
        /\ batch[k].ReceiptHandle[3] = RedriveCount
        /\ tasks[k].st = "rejected"
        /\ where[batch[k].MessageId] = "dlq"

\* The receive on the primary queue of the present cycle failed; the receive
\* on the DLQ of the present cycle failed.
FailedCycle    == recv = "failed"
DlqFailedCycle == \E l \in DOMAIN log : log[l] = Line("error", "Error processing DLQ:", 0)

\* C24 (as claimed): in a cycle in which a receive failed, on the primary
\* queue or on the DLQ, no processMessage call runs and no delete is sent.
C24_FailedReceiveNoWork ==
    (FailedCycle \/ DlqFailedCycle) =>
        /\ RanCalls = {}
        /\ calls = <<>>

\* What holds of a cycle whose receive on the primary queue failed: it
\* handed nothing to processMessage, no delete names a primary message, the
\* failure is logged and pollQueue has gone on.
FailedCycleQuiet ==
    FailedCycle =>
        /\ batch = <<>> /\ tasks = <<>>
        /\ \A c \in DOMAIN calls : calls[c].ReceiptHandle[1] # "primary"
        /\ \E l \in DOMAIN log : log[l] = Line("error", "Error receiving messages:", 0)
        /\ pc \in {"afterTry", "dlqReceive", "dlqLoop", "timer", "exited"}
        /\ RanCalls # {} => (variant = VMain /\ pc \in {"dlqLoop", "timer", "exited"})

\* The same of a cycle whose receive on the DLQ failed: the drain is over.
DlqFailedCycleQuiet ==
    DlqFailedCycle =>
        /\ dlqBatch = <<>> /\ dlqTasks = <<>>
        /\ \A c \in DOMAIN calls : calls[c].ReceiptHandle[1] # "dlq"
        /\ pc \in {"timer", "exited"}

\* The step in which a receive fails changes nothing but the log (and where
\* pollQueue stands): no queue, no batch, no call.
FailureFrame ==
    ((FailedCycle' /\ ~FailedCycle) \/ (DlqFailedCycle' /\ ~DlqFailedCycle)) =>
        /\ UNCHANGED << where, body, rc, inflight, batch, tasks, idx,
                        dlqBatch, dlqTasks, dlqIdx, calls, exitCode >>
        /\ Len(log') = Len(log) + 1
        /\ log'[Len(log')].lvl = "error"

\* C24 (amended): a failed receive changes nothing of the queues, the
\* batches and the calls; in its cycle no message of the queue it was sent
\* to is handed to processMessage or deleted, the failure is logged, and the
\* cycle goes on to the next poll; messages of the other queue may be
\* processed in the same cycle.
C24_FailedReceiveFrame ==
    /\ [] (FailedCycleQuiet /\ DlqFailedCycleQuiet)
    /\ [][FailureFrame]_vars

\* C24 witness: the receive on the primary queue failed, and the DLQ drain of
\* the same cycle has run processMessage on a DLQ message.
C24_Witness ==
    /\ FailedCycle
    /\ pc = "timer"
    /\ \E k \in DOMAIN dlqTasks : Settled(dlqTasks[k])

\* C25 (as claimed): in PetClinicReportProcessor.js, with a queue URL, under
\* a fair Math.random() and a provider that does not fail, the DLQ is drained
\* again and again, and every complete message in the DLQ is eventually
\* deleted from it.
C25_DlqEventuallyDrained ==
    (variant = VMain /\ queueUrl = PrimaryUrl) =>
        /\ [] <> (pc = "dlqReceive")
        /\ \A i \in Ids :
              [] ((where[i] = "dlq" /\ BodyComplete(body[i])) => <> (where[i] = "deleted"))

\* pollQueue is running: an invocation is between its start and its end.
PollActive == pc \in {"receive", "loop", "awaitAll", "afterTry", "dlqReceive", "dlqLoop"}

\* A step that arms a timer for pollQueue is the last step of the running
\* invocation, and it arms exactly one.
ArmsOnceAtEnd ==
    timers' > timers =>
        /\ PollActive /\ pc \notin {"receive", "loop", "awaitAll"}
        /\ pc' = "timer"
        /\ timers' = timers + 1

\* A step that starts an invocation of pollQueue is the start of the program
\* or uses up the one pending timer, and no invocation is running then.
StartsFromTimer ==
    (PollActive' /\ ~PollActive) =>
        /\ pc \in {"main", "timer"}
        /\ pc = "timer" => (timers = 1 /\ timers' = 0)

\* C26: at most one timer for pollQueue is pending, and none while an
\* invocation runs (so no second receive on the primary queue can be sent
\* while one is outstanding); a timer is armed once, by the last step of an
\* invocation, and an invocation starts only from the program's start or
\* from that timer.
C26_SinglePollCycle ==
    /\ [] ( /\ timers \in {0, 1}
            /\ PollActive => timers = 0
            /\ pc = "timer" => timers = 1 )
    /\ [][ArmsOnceAtEnd /\ StartsFromTimer]_vars

\* C26 witness: the timer is pending at the end of a cycle that ran a DLQ
\* drain after its primary batch.
C26_Witness ==
    /\ pc = "timer"
    /\ timers = 1
    /\ batch # <<>>
    /\ dlqBatch # <<>>

\* processDeadLetterQueue is running.
Draining == pc \in {"dlqReceive", "dlqLoop"}

\* The DLQ batch is reprocessed in received order, one message at a time:
\* the messages before the current one have settled and those after it have
\* not been started.
DlqInOrder ==
    \A k \in DOMAIN dlqTasks :
        /\ dlqTasks[k].st # "new" => \A j \in 1..(k - 1) : Settled(dlqTasks[j])
        /\ (Draining /\ k > dlqIdx) => dlqTasks[k].st = "new"

\* A drain starts from the end of pollQueue's try/catch, a DLQ batch is
\* taken and its messages are worked on only while it runs, and it ends by scheduling the next poll
\* with every message of its batch settled.
DrainInsideCycle ==
    /\ (Draining' /\ ~Draining) => pc = "afterTry"
    /\ (dlqTasks' # dlqTasks /\ dlqTasks' # <<>>) => Draining
    /\ (Draining /\ ~Draining') =>
          \/ pc' = "exited"
          \/ /\ pc' = "timer"
             /\ \A k \in DOMAIN dlqTasks' : Settled(dlqTasks'[k])

\* C27: a DLQ drain runs inside the poll cycle that started it, takes the
\* messages of its batch one at a time in received order, and no next poll
\* is scheduled and no receive on the primary queue is outstanding until
\* the drain has ended.
C27_SequentialDrain ==
    /\ [] DlqInOrder
    /\ [] (Draining => (timers = 0 /\ recv # "pending"))
    /\ [][DrainInsideCycle]_vars

\* C27 witness: a drain of two messages has settled the first and is about
\* to start the second, with no poll scheduled.
C27_Witness ==
    /\ pc = "dlqLoop"
    /\ Len(dlqBatch) = 2
    /\ dlqIdx = 2
    /\ Settled(dlqTasks[1])
    /\ dlqTasks[2].st = "new"
    /\ timers = 0

============================================================================
